---------------------------- MODULE Spec2Model ----------------------------
(***************************************************************************)
(* Building-risk analyzer: the Azure OpenAI service wrapper                *)
(* (src/azure_openai_service.py) and the Streamlit front end (src/app.py). *)
(*                                                                         *)
(* A text is a sequence of pieces.  Each piece is a run of characters that *)
(* the code never splits: str.find('{') / str.rfind('}') look for a single *)
(* character and no piece other than "{" / "}" contains one, and the       *)
(* literal 'OK' of the health check can only be spelled by the pieces "O"  *)
(* and "K".  Indexes are therefore counted in pieces.                      *)
(***************************************************************************)
EXTENDS Integers, Sequences, FiniteSets, TLC

VARIABLES
    env,          \* os.environ as seen by os.getenv: name -> "unset" | "empty" | "set"
    ai_service,   \* BuildingRiskAnalyzer.ai_service: "None" | "AzureOpenAIService"
    session,      \* st.session_state: analysis_result, analysis_timestamp
    uploaded,     \* the file_uploader widget's files
    run,          \* what the last script run (or service call) did
    clock         \* datetime.now(), counted in stored analyses

vars == <<env, ai_service, session, uploaded, run, clock>>

---------------------------------------------------------------------------
(* Bounds *)

MaxLen == 5          \* longest enumerated reply text, in pieces
MaxImages == 2       \* most images handed to the service directly
MaxUpload == 11      \* most files put in the uploader
MaxClock == 2        \* most analyses stored in one session

---------------------------------------------------------------------------
(* Texts *)

LBRACE == "{"
RBRACE == "}"
COMMA == ","
KEY_SCORE == "\"risk_score\":"
KEY_RAW == "\"raw_response\":"
KEY_LEVEL == "\"overall_risk_level\":"
NUM7 == "7"
PROSE == "x"

KeyName(tok) ==
    IF tok = KEY_SCORE THEN "risk_score"
    ELSE IF tok = KEY_LEVEL THEN "overall_risk_level"
    ELSE "raw_response"
KeyTokens == {KEY_SCORE, KEY_RAW, KEY_LEVEL}

JsonAlphabet == {LBRACE, RBRACE, KEY_SCORE, KEY_RAW, NUM7, PROSE}
HealthAlphabet == {"O", "K", PROSE}

SeqsUpTo(S, n) == UNION {[1..k -> S] : k \in 0..n}

\* Replies longer than MaxLen: members separated by commas, a repeated key,
\* an object between two proses, two objects.
LongTexts ==
    { <<LBRACE, KEY_SCORE, NUM7, COMMA, KEY_RAW, NUM7, RBRACE>>,
      <<LBRACE, KEY_SCORE, NUM7, COMMA, KEY_SCORE, LBRACE, RBRACE, RBRACE>>,
      <<PROSE, LBRACE, KEY_SCORE, NUM7, RBRACE, PROSE>>,
      <<LBRACE, KEY_SCORE, NUM7, COMMA, RBRACE>>,
      <<LBRACE, KEY_SCORE, NUM7, RBRACE, PROSE, LBRACE, KEY_RAW, NUM7, RBRACE>> }

Texts == SeqsUpTo(JsonAlphabet, MaxLen) \cup SeqsUpTo(HealthAlphabet, MaxLen)
            \cup LongTexts

---------------------------------------------------------------------------
(* Python values: the result mappings are dicts of JSON values *)

JNone == [tag |-> "None", n |-> 0, s |-> <<>>, items |-> <<>>, members |-> <<>>]
JNum(i) == [tag |-> "num", n |-> i, s |-> <<>>, items |-> <<>>, members |-> <<>>]
JStr(t) == [tag |-> "str", n |-> 0, s |-> t, items |-> <<>>, members |-> <<>>]
JList(l) == [tag |-> "list", n |-> 0, s |-> <<>>, items |-> l, members |-> <<>>]
JDict(f) == [tag |-> "dict", n |-> 0, s |-> <<>>, items |-> <<>>, members |-> f]

HasKey(d, k) == d.tag = "dict" /\ k \in DOMAIN d.members

\* Exceptions: a type and a message (a text)
Exc(type, msg) == [type |-> type, msg |-> msg]
NoExc == Exc("", <<>>)

---------------------------------------------------------------------------
(* str.find, str.rfind and slicing *)

\* str.find(ch): the 0-based index of the first occurrence, -1 when absent
find(s, ch) ==
    IF \E i \in 1..Len(s) : s[i] = ch
    THEN (CHOOSE i \in 1..Len(s) : s[i] = ch /\ \A j \in 1..(i-1) : s[j] # ch) - 1
    ELSE -1

\* str.rfind(ch): the 0-based index of the last occurrence, -1 when absent
rfind(s, ch) ==
    IF \E i \in 1..Len(s) : s[i] = ch
    THEN (CHOOSE i \in 1..Len(s) : s[i] = ch /\ \A j \in (i+1)..Len(s) : s[j] # ch) - 1
    ELSE -1

\* s[a:b] with Python's treatment of a negative or oversized index
Slice(s, a, b) ==
    LET norm(i) == IF i < 0 THEN (IF i + Len(s) < 0 THEN 0 ELSE i + Len(s))
                   ELSE IF i > Len(s) THEN Len(s) ELSE i
        lo == norm(a)
        hi == norm(b)
    IN  IF lo >= hi THEN <<>> ELSE SubSeq(s, lo + 1, hi)

\* the span cut at the first "}" instead of the last
ExtractSpanFirstClose(content) ==
    Slice(content, find(content, LBRACE), find(content, RBRACE) + 1)

\* line 84: content[content.find('{'):content.rfind('}')+1]
ExtractSpan(content) ==
    Slice(content, find(content, LBRACE), rfind(content, RBRACE) + 1)

---------------------------------------------------------------------------
(* json.loads on a text of pieces *)

RECURSIVE ParseValue(_, _)
RECURSIVE ParseMembers(_, _, _)
RECURSIVE DigitsEnd(_, _)
RECURSIVE Number(_)

\* the first piece from i on that is not a digit
DigitsEnd(toks, i) ==
    IF i <= Len(toks) /\ toks[i] = NUM7 THEN DigitsEnd(toks, i + 1) ELSE i

\* the number written with k digits 7
Number(k) == IF k = 0 THEN 0 ELSE 10 * Number(k - 1) + 7

ParseFail(i) == [ok |-> FALSE, val |-> JNone, next |-> i]

\* the members of an object from piece i on, acc holding those read so far;
\* a repeated key keeps the later value
ParseMembers(toks, i, acc) ==
    IF i > Len(toks) \/ toks[i] \notin KeyTokens THEN ParseFail(i)
    ELSE LET v == ParseValue(toks, i + 1)
             acc2 == (KeyName(toks[i]) :> v.val) @@ acc
             j == v.next
         IN  IF ~v.ok \/ j > Len(toks) THEN ParseFail(j)
             ELSE IF toks[j] = RBRACE THEN [ok |-> TRUE, val |-> JDict(acc2), next |-> j + 1]
             ELSE IF toks[j] = COMMA THEN ParseMembers(toks, j + 1, acc2)
             ELSE ParseFail(j)

\* one JSON value starting at piece i; adjacent digits are one number
ParseValue(toks, i) ==
    IF i > Len(toks) THEN ParseFail(i)
    ELSE IF toks[i] = NUM7
        THEN [ok |-> TRUE, val |-> JNum(Number(DigitsEnd(toks, i) - i)),
              next |-> DigitsEnd(toks, i)]
    ELSE IF toks[i] = LBRACE THEN
        IF i + 1 <= Len(toks) /\ toks[i + 1] = RBRACE
        THEN [ok |-> TRUE, val |-> JDict(<<>>), next |-> i + 2]
        ELSE ParseMembers(toks, i + 1, <<>>)
    ELSE ParseFail(i)

\* json.loads(s): the value, or JSONDecodeError (also for data after the value)
json_loads(s) ==
    LET r == ParseValue(s, 1)
    IN  IF r.ok /\ r.next = Len(s) + 1
        THEN [ok |-> TRUE, val |-> r.val, exc |-> NoExc]
        ELSE [ok |-> FALSE, val |-> JNone, exc |-> Exc("JSONDecodeError", <<"Expecting value">>)]

---------------------------------------------------------------------------
(* The hosted model: what client.chat.completions.create does on one call *)

TransportErrors == {"APIConnectionError", "RateLimitError"}

\* create() raised
Raises(type) ==
    [kind |-> "raises", exc |-> Exc(type, <<type>>), error |-> FALSE, choices |-> 0,
     none |-> TRUE, text |-> <<>>]

\* create() returned a response: whether it has a truthy error attribute, how
\* many choices it has, and the first choice's content (None, or a text)
Response(error, choices, none, text) ==
    [kind |-> "response", exc |-> NoExc, error |-> error, choices |-> choices,
     none |-> none, text |-> text]

Content(t) == Response(FALSE, 1, FALSE, t)
NoReply == Response(FALSE, 0, TRUE, <<>>)

FailingReplies ==
    {Raises(e) : e \in TransportErrors}
        \cup {Response(TRUE, 1, FALSE, <<"O", "K">>), Response(TRUE, 1, TRUE, <<>>),
              Response(TRUE, 0, TRUE, <<>>), Response(FALSE, 0, TRUE, <<>>),
              Response(FALSE, 1, TRUE, <<>>)}
Replies == FailingReplies \cup {Content(t) : t \in Texts}

\* an image as _perform_analysis prepares it
ImageData(i) == [base64 |-> "b64-" \o ToString(i), type |-> "image/png",
                 name |-> "file-" \o ToString(i)]
ImageList(n) == [i \in 1..n |-> ImageData(i)]

\* the images of a direct call: analyze_building_risks takes whatever type
\* and payload each image names
ServiceImages(n) ==
    [i \in 1..n |-> [base64 |-> "b64-" \o ToString(i),
                     type |-> IF i % 2 = 1 THEN "image/jpeg" ELSE "image/png",
                     name |-> "file-" \o ToString(i)]]

---------------------------------------------------------------------------
(* AzureOpenAIService *)

EnvNames == {"4.1_OPENAI_ENDPOINT", "4.1_OPENAI_API_KEY", "4.1_OPENAI_DEPLOYMENT_NAME"}
EnvValues == {"unset", "empty", "set"}

\* truthiness of os.getenv(name): None and '' are falsy
Truthy(e, name) == e[name] = "set"

\* __init__ testing `is None` instead of truthiness: '' passes
AzureOpenAIService_init_NoneOnly(e) ==
    IF \E name \in EnvNames : e[name] = "unset"
    THEN [ok |-> FALSE,
          exc |-> Exc("ValueError",
                      <<"Missing Azure OpenAI configuration. Please check your .env file.">>)]
    ELSE [ok |-> TRUE, exc |-> NoExc]

\* __init__, lines 14-28: raises ValueError unless all three values are truthy

AzureOpenAIService_init(e) ==
    IF ~(\A name \in EnvNames : Truthy(e, name))
    THEN [ok |-> FALSE,
          exc |-> Exc("ValueError",
                      <<"Missing Azure OpenAI configuration. Please check your .env file.">>)]
    ELSE [ok |-> TRUE, exc |-> NoExc]

TokensSingle == 2000
TokensMulti == 3000
RiskScoreDefault == 5

_get_system_prompt(image_count) ==
    <<"You are an expert insurance underwriter [...] You are analyzing ",
      ToString(image_count), " image", IF image_count > 1 THEN "s" ELSE "",
      " of the same building [...] \"images_analyzed\": ", ToString(image_count),
      IF image_count > 1 THEN " [multi-image instructions]" ELSE " [single-image instructions]">>

_get_user_prompt(image_count) ==
    IF image_count > 1
    THEN <<"Please analyze these ", ToString(image_count),
           " building images for comprehensive insurance underwriting risk assessment. [...]">>
    ELSE <<"Please analyze this building image for insurance underwriting risk assessment. [...]">>

Category == [risk_level |-> JStr(<<"MEDIUM">>), observations |-> JList(<<>>),
             concerns |-> JList(<<>>)]

\* the dict literal of lines 192-208, with its two substituted values
FallbackDict(content, image_count) ==
    JDict([overall_risk_level |-> JStr(<<"MEDIUM">>),
           risk_score |-> JNum(RiskScoreDefault),
           images_analyzed |-> JNum(image_count),
           key_findings |-> JList(<<JStr(<<"Analysis completed - see detailed response">>)>>),
           raw_response |-> JStr(content),
           detailed_assessment |->
               JDict([fire_safety |-> JDict(Category),
                      structural |-> JDict(Category),
                      security |-> JDict(Category),
                      water_damage |-> JDict(Category),
                      environmental |-> JDict(Category)]),
           recommendations |-> JList(<<JStr(<<"Review detailed analysis">>)>>),
           additional_information_needed |-> JList(<<>>),
           image_analysis_summary |->
               JStr(<<"Analysis of ", ToString(image_count), " building image",
                      IF image_count > 1 THEN "s" ELSE "", " completed">>)])

\* the fallback reporting one image whatever the request held
_create_fallback_response_OneImage(content, image_count) ==
    FallbackDict(content, 1)

\* the fallback carrying the extracted span instead of the whole text
_create_fallback_response_RawSpan(content, image_count) ==
    FallbackDict(ExtractSpan(content), image_count)

_create_fallback_response(content, image_count) ==
    FallbackDict(content, image_count)

\* line 52: one text block of the user message
TextBlock(text) == [type |-> "text", text |-> text, url |-> <<>>, detail |-> ""]

\* lines 55-62: one image block of the user message
ImageBlock(img) ==
    [type |-> "image_url", text |-> <<>>,
     url |-> <<"data:", img.type, ";base64,", img.base64>>, detail |-> "high"]

\* a message whose content is a string, and one whose content is a list of
\* blocks
StrMessage(role, text) == [role |-> role, content |-> "str", text |-> text, blocks |-> <<>>]
ListMessage(role, blocks) == [role |-> role, content |-> "list", text |-> <<>>, blocks |-> blocks]

\* the token budget granting the larger one from the first image on
max_tokens_FromOne(image_count) == IF image_count >= 1 THEN TokensMulti ELSE TokensSingle

\* line 70
max_tokens(image_count) == IF image_count > 1 THEN TokensMulti ELSE TokensSingle

\* the image blocks appended in reverse order
BuildRequest_Reversed(images) ==
    LET image_count == Len(images)
    IN  [messages |->
            <<StrMessage("system", _get_system_prompt(image_count)),
              ListMessage("user",
                          <<TextBlock(_get_user_prompt(image_count))>>
                              \o [i \in 1..image_count |->
                                     ImageBlock(images[image_count + 1 - i])])>>,
         max_tokens |-> max_tokens(image_count),
         temperature |-> "0.3",
         model |-> "deployment"]

\* lines 49-73: the conversation and the generation parameters handed to
\* create()
BuildRequest(images) ==
    LET image_count == Len(images)
    IN  [messages |->
            <<StrMessage("system", _get_system_prompt(image_count)),
              ListMessage("user",
                          <<TextBlock(_get_user_prompt(image_count))>>
                              \o [i \in 1..image_count |-> ImageBlock(images[i])])>>,
         max_tokens |-> max_tokens(image_count),
         temperature |-> "0.3",
         model |-> "deployment"]

\* lines 82-91 without the except clause: the JSONDecodeError leaves the try
ParseOrFallback_NoExcept(content, image_count) ==
    LET json_match == ExtractSpan(content)
        parsed == json_loads(json_match)
    IN  IF json_match # <<>>
        THEN IF parsed.ok THEN [ok |-> TRUE, val |-> parsed.val, exc |-> NoExc]
             ELSE [ok |-> FALSE, val |-> JNone, exc |-> parsed.exc]
        ELSE [ok |-> TRUE, val |-> _create_fallback_response(content, image_count),
              exc |-> NoExc]

\* lines 82-91: the inner try, given a non-empty content.  Only JSONDecodeError
\* is caught here; json.loads raises nothing else on the texts in bounds.
ParseOrFallback(content, image_count) ==
    LET json_match == ExtractSpan(content)
        parsed == json_loads(json_match)
    IN  IF json_match # <<>>
        THEN IF parsed.ok THEN [ok |-> TRUE, val |-> parsed.val, exc |-> NoExc]
             ELSE IF parsed.exc.type = "JSONDecodeError"
                 THEN [ok |-> TRUE, val |-> _create_fallback_response(content, image_count),
                       exc |-> NoExc]
             ELSE [ok |-> FALSE, val |-> JNone, exc |-> parsed.exc]
        ELSE [ok |-> TRUE, val |-> _create_fallback_response(content, image_count),
              exc |-> NoExc]

Returned(result, calls) ==
    [status |-> "returned", result |-> result, exc |-> NoExc, context |-> NoExc,
     calls |-> calls]

\* line 95: raise Exception(f"Risk analysis failed: {str(error)}") inside the
\* except block, so the new exception's __context__ is the one caught
\* the handler re-raising what it caught
WrapUnwrapped(error, calls) ==
    [status |-> "raised", result |-> JNone, exc |-> error, context |-> NoExc,
     calls |-> calls]

Wrap(error, calls) ==
    [status |-> "raised", result |-> JNone,
     exc |-> Exc("Exception", <<"Risk analysis failed: ">> \o error.msg),
     context |-> error, calls |-> calls]

\* a second create() call after a failed one (the code makes none)
analyze_building_risks_Retry(image_data, reply) ==
    IF reply.kind = "response" /\ ~reply.error /\ reply.choices > 0
          /\ ~reply.none /\ reply.text # <<>>
    THEN Returned(ParseOrFallback(reply.text, Len(image_data)).val, 1)
    ELSE Wrap(IF reply.kind = "raises" THEN reply.exc
              ELSE Exc("Exception", <<"No response content received from Azure OpenAI">>), 2)

\* lines 42-95, with the reply of the one create() call
analyze_building_risks(image_data, reply) ==
    LET image_count == Len(image_data)
        p == ParseOrFallback(reply.text, image_count)
    IN  IF reply.kind = "raises" THEN Wrap(reply.exc, 1)
        ELSE IF reply.error
            THEN Wrap(Exc("Exception", <<"Azure OpenAI API Error: ", "error">>), 1)
        ELSE IF reply.choices = 0
            THEN Wrap(Exc("IndexError", <<"list index out of range">>), 1)
        ELSE IF reply.none \/ reply.text = <<>>
            THEN Wrap(Exc("Exception", <<"No response content received from Azure OpenAI">>), 1)
        ELSE IF p.ok THEN Returned(p.val, 1)
        ELSE Wrap(p.exc, 1)

\* 'OK' in s
ContainsOK(s) == \E i \in 1..(Len(s) - 1) : s[i] = "O" /\ s[i + 1] = "K"

\* the health check comparing the text with 'OK' instead of searching it
health_check_Exact(reply) ==
    [raised |-> FALSE,
     value |-> reply.kind = "response" /\ reply.choices > 0 /\ ~reply.none
                 /\ reply.text = <<"O", "K">>]

\* lines 217-231: never raises; True iff 'OK' in (content or '')
health_check(reply) ==
    IF reply.kind = "raises" THEN [raised |-> FALSE, value |-> FALSE]
    ELSE IF reply.choices = 0 THEN [raised |-> FALSE, value |-> FALSE]
    ELSE [raised |-> FALSE, value |-> ContainsOK(IF reply.none THEN <<>> ELSE reply.text)]

---------------------------------------------------------------------------
(* What one script run, or one direct call of the service, did *)

NoOut == [status |-> "none", result |-> JNone, exc |-> NoExc, context |-> NoExc, calls |-> 0]
NoRequest == [messages |-> <<>>, max_tokens |-> 0, temperature |-> "", model |-> ""]
NoAnalyze == [called |-> FALSE, images |-> 0, image_data |-> <<>>, request |-> NoRequest,
              reply |-> NoReply, out |-> NoOut]
NoHealth == [called |-> FALSE, reply |-> NoReply, raised |-> FALSE, value |-> FALSE]

Run(kind, screen, handled, analyze, health) ==
    [kind |-> kind, screen |-> screen, handled |-> handled, button |-> FALSE,
     analyze |-> analyze, health |-> health]

NoSession == [has_result |-> FALSE, analysis_result |-> JNone, analysis_timestamp |-> 0]
NoFiles == [count |-> 0, state |-> "good"]

AllSet == [name \in EnvNames |-> "set"]

---------------------------------------------------------------------------
(* The service called directly, on every reply and image count in bounds *)

ServiceInit ==
    /\ env = AllSet
    /\ ai_service = "AzureOpenAIService"
    /\ session = NoSession
    /\ uploaded = NoFiles
    /\ run = Run("idle", {}, FALSE, NoAnalyze, NoHealth)
    /\ clock = 0

CallAnalyze ==
    /\ run.kind = "idle"
    /\ \E n \in 0..MaxImages, reply \in Replies :
         run' = Run("analyze", {}, FALSE,
                    [called |-> TRUE, images |-> n, image_data |-> ServiceImages(n),
                     request |-> BuildRequest(ServiceImages(n)),
                     reply |-> reply,
                     out |-> analyze_building_risks(ServiceImages(n), reply)],
                    NoHealth)
    /\ UNCHANGED <<env, ai_service, session, uploaded, clock>>

CallHealth ==
    /\ run.kind = "idle"
    /\ \E reply \in Replies :
         LET h == health_check(reply)
         IN  run' = Run("health", {}, FALSE, NoAnalyze,
                        [called |-> TRUE, reply |-> reply, raised |-> h.raised,
                         value |-> h.value])
    /\ UNCHANGED <<env, ai_service, session, uploaded, clock>>

CallDone ==
    /\ run.kind \in {"analyze", "health"}
    /\ run' = Run("idle", {}, FALSE, NoAnalyze, NoHealth)
    /\ UNCHANGED <<env, ai_service, session, uploaded, clock>>

ServiceNext == CallAnalyze \/ CallHealth \/ CallDone

ServiceSpec == ServiceInit /\ [][ServiceNext]_vars

---------------------------------------------------------------------------
(* BuildingRiskAnalyzer: rendering a result *)

Get(d, k, default) == IF HasKey(d, k) THEN d.members[k] ELSE default

\* bool(v)
PyTruthy(v) ==
    \/ v.tag = "num" /\ v.n # 0
    \/ v.tag = "str" /\ v.s # <<>>
    \/ v.tag = "list" /\ v.items # <<>>
    \/ v.tag = "dict" /\ DOMAIN v.members # {}

Hashable(v) == v.tag \notin {"list", "dict"}
IsNumber(v) == v.tag = "num"
Iterable(v) == v.tag \in {"str", "list", "dict"}
\* st.metric takes int, float, str or None as its value
MetricValue(v) == v.tag \in {"num", "str", "None"}

\* `if k in d and d[k]: for x in d[k]` raises on a truthy value that cannot
\* be iterated
ListingRaises(d, k) == HasKey(d, k) /\ PyTruthy(d.members[k]) /\ ~Iterable(d.members[k])

\* lines 272-345: whether _display_detailed_assessment raises
_display_detailed_assessment_Raises(da) ==
    /\ PyTruthy(da)
    /\ \/ da.tag # "dict"
       \/ \E c \in DOMAIN da.members :
            LET data == da.members[c]
            IN  /\ data.tag = "dict"
                /\ \/ HasKey(data, "risk_level") /\ ~Hashable(data.members.risk_level)
                   \/ ListingRaises(data, "observations")
                   \/ ListingRaises(data, "concerns")

\* lines 193-197 (and 324-328): the indicator looked up for a risk level, the
\* neutral one for a level that is not LOW, MEDIUM or HIGH
risk_emoji(risk_level) ==
    IF risk_level = JStr(<<"LOW">>) THEN "green"
    ELSE IF risk_level = JStr(<<"MEDIUM">>) THEN "yellow"
    ELSE IF risk_level = JStr(<<"HIGH">>) THEN "red"
    ELSE "white"

MsgLevel(emoji) == "metric: Overall Risk Level " \o emoji

\* lines 191-198: the first headline metric, drawn before anything later in
\* the function can raise
OverallLevelMetric(results) ==
    LET risk_level == Get(results, "overall_risk_level", JStr(<<"UNKNOWN">>))
    IN  IF Hashable(risk_level) THEN {MsgLevel(risk_emoji(risk_level))} ELSE {}

\* lines 182-243: whether _display_analysis_results raises
_display_analysis_results_Raises(results) ==
    \/ ~Hashable(Get(results, "overall_risk_level", JStr(<<"UNKNOWN">>)))
    \/ ~IsNumber(Get(results, "risk_score", JNum(0)))
    \/ ~MetricValue(Get(results, "images_analyzed", JNum(0)))
    \/ ListingRaises(results, "key_findings")
    \/ _display_detailed_assessment_Raises(Get(results, "detailed_assessment", JDict(<<>>)))
    \/ ListingRaises(results, "recommendations")
    \/ ListingRaises(results, "additional_information_needed")

---------------------------------------------------------------------------
(* BuildingRiskAnalyzer: one run of the script *)

UploadLimit == 10

MsgInitOk == "success: Azure OpenAI service initialized successfully"
MsgInitFailed == "error: Failed to initialize Azure OpenAI service"
MsgCheckEnv == "info: Please check your .env file configuration"
MsgNoService == "error: Service not available. Please configure your environment variables."
MsgTooMany == "error: Please upload a maximum of 10 images"
MsgAnalysisFailed == "error: Analysis failed"
MsgResults == "header: Risk Analysis Results"
MsgHealthy == "success: All services healthy"
MsgUnhealthy == "warning: Service connectivity issues"
MsgHealthFailed == "error: Health check failed"
MsgException == "exception: uncaught"

FileStates == {"good", "unreadable", "unsavable"}
Files == [count : 0..MaxUpload, state : FileStates]

\* lines 39-47
_initialize_service(e) ==
    LET made == AzureOpenAIService_init(e)
    IN  IF made.ok
        THEN [ai_service |-> "AzureOpenAIService", screen |-> {MsgInitOk}]
        ELSE [ai_service |-> "None", screen |-> {MsgInitFailed, MsgCheckEnv}]

\* lines 111-124: with no service the attribute lookup on None raises inside
\* the try and is reported
_check_service_health(service, reply) ==
    IF service = "None"
    THEN [health |-> NoHealth, screen |-> {MsgHealthFailed}]
    ELSE LET h == health_check(reply)
         IN  [health |-> [called |-> TRUE, reply |-> reply, raised |-> h.raised,
                          value |-> h.value],
              screen |-> IF h.raised THEN {MsgHealthFailed}
                         ELSE IF h.value THEN {MsgHealthy} ELSE {MsgUnhealthy}]

\* the limit test off by one
TooManyFiles_OffByOne(count) == count > UploadLimit + 1

\* line 128
TooManyFiles(count) == count > UploadLimit

\* the session written whether or not the call returned
StoreResult_Always(old, out, now) ==
    [has_result |-> TRUE, analysis_result |-> out.result, analysis_timestamp |-> now]

\* lines 172-174 run only after the call returned
StoreResult(old, out, now) ==
    IF out.status = "returned"
    THEN [has_result |-> TRUE, analysis_result |-> out.result, analysis_timestamp |-> now]
    ELSE old

\* lines 172-180, once analyze_building_risks has returned or raised `out`
AfterAnalysis(files, reply, old, now, out) ==
    [analyze |-> [called |-> TRUE, images |-> files.count,
                  image_data |-> ImageList(files.count),
                  request |-> BuildRequest(ImageList(files.count)), reply |-> reply,
                  out |-> out],
     session |-> StoreResult(old, out, now),
     screen |-> IF out.status = "raised" THEN {MsgAnalysisFailed}
                ELSE IF _display_analysis_results_Raises(out.result)
                    THEN {MsgResults, MsgAnalysisFailed} \cup OverallLevelMetric(out.result)
                ELSE {MsgResults} \cup OverallLevelMetric(out.result)]

\* lines 145-180
_perform_analysis(files, reply, old, now) ==
    IF files.state # "good"
    THEN \* Image.open or image.save raised while preparing image_data
         [analyze |-> NoAnalyze, session |-> old, screen |-> {MsgAnalysisFailed}]
    ELSE AfterAnalysis(files, reply, old, now,
                       analyze_building_risks(ImageList(files.count), reply))

NotPerformed(old) == [analyze |-> NoAnalyze, session |-> old, screen |-> {}]

\* lines 126-143
_handle_file_upload(files, clicked, reply, old, now) ==
    IF TooManyFiles(files.count)
    THEN [handled |-> TRUE, button |-> FALSE, done |-> NotPerformed(old),
          screen |-> {MsgTooMany}]
    ELSE IF files.state = "unreadable"
    THEN \* Image.open raises at line 138 and ends the script
         [handled |-> TRUE, button |-> FALSE, done |-> NotPerformed(old),
          screen |-> {MsgException}]
    ELSE [handled |-> TRUE, button |-> TRUE,
          done |-> IF clicked THEN _perform_analysis(files, reply, old, now)
                   ELSE NotPerformed(old),
          screen |-> {}]

\* run(), lines 60-73: the main content
run_main(service, files, clicked, reply, old, now) ==
    IF service = "None"
    THEN [handled |-> FALSE, button |-> FALSE, done |-> NotPerformed(old),
          screen |-> {MsgNoService}]
    ELSE IF files.count = 0
    THEN [handled |-> FALSE, button |-> FALSE, done |-> NotPerformed(old), screen |-> {}]
    ELSE _handle_file_upload(files, clicked, reply, old, now)

\* run(), lines 56-57: the sidebar, whose button runs the health check
_render_sidebar(service, clicked, reply) ==
    IF clicked THEN _check_service_health(service, reply)
    ELSE [health |-> NoHealth, screen |-> {}]

\* what the script run leaves behind; without a service the uploader is not
\* rendered (line 62 returns first) and holds no files
ScriptEffects(kind, files, init, side, main) ==
    /\ ai_service' = init.ai_service
    /\ uploaded' = IF init.ai_service = "None" THEN NoFiles ELSE files
    /\ session' = main.done.session
    /\ clock' = IF main.done.session # session THEN clock + 1 ELSE clock
    /\ run' = [kind |-> kind,
               screen |-> init.screen \cup side.screen \cup main.screen
                            \cup main.done.screen,
               handled |-> main.handled,
               button |-> main.button,
               analyze |-> main.done.analyze,
               health |-> side.health]
    /\ UNCHANGED env

ScriptWith(kind, files, reply, init) ==
    ScriptEffects(kind, files, init,
                  _render_sidebar(init.ai_service, kind = "click_health", reply),
                  run_main(init.ai_service, files, kind = "click_analyze", reply,
                           session, clock))

\* main(), lines 347-350: the whole script, for the interaction that
\* triggered it
Script(kind, files, reply) ==
    ScriptWith(kind, files, reply, _initialize_service(env))

\* The replies the hosted model gives in the UI runs: one of each outcome of
\* analyze_building_risks (every reply in bounds is covered by ServiceSpec)
UIReplies ==
    { Raises("APIConnectionError"),
      Response(TRUE, 1, FALSE, <<"O", "K">>),
      Response(FALSE, 1, TRUE, <<>>),
      Content(<<LBRACE, KEY_SCORE, NUM7, RBRACE>>),
      Content(<<LBRACE, KEY_SCORE, LBRACE, RBRACE, RBRACE>>),
      Content(<<LBRACE, KEY_LEVEL, NUM7, RBRACE>>),
      Content(<<PROSE>>) }
UIHealthReplies ==
    { Raises("APIConnectionError"), Content(<<"O", "K">>), Content(<<PROSE>>) }

Init ==
    /\ env \in [EnvNames -> EnvValues]
    /\ ai_service = "None"
    /\ session = NoSession
    /\ uploaded = NoFiles
    /\ run = Run("start", {}, FALSE, NoAnalyze, NoHealth)
    /\ clock = 0

InUI == run.kind \in {"start", "upload", "click_health", "click_analyze"}

\* the user opens the page or changes the files in the uploader
Upload ==
    /\ InUI
    /\ \E files \in Files : Script("upload", files, NoReply)

\* the user presses "Check Service Health"
ClickHealth ==
    /\ InUI /\ run.kind # "start"
    /\ \E reply \in UIHealthReplies : Script("click_health", uploaded, reply)

\* the user presses "Analyze Building Risks", which the last run rendered
ClickAnalyze ==
    /\ InUI /\ run.button
    /\ clock < MaxClock
    /\ \E reply \in UIReplies : Script("click_analyze", uploaded, reply)

Next == Upload \/ ClickHealth \/ ClickAnalyze

Spec == Init /\ [][Next]_vars

---------------------------------------------------------------------------
(* Claims about the service (checked under ServiceSpec) *)

Call == run.analyze
Out == run.analyze.out

\* the reply of the call carried a non-empty text as its content
GotText ==
    /\ Call.called
    /\ Call.reply.kind = "response" /\ ~Call.reply.error /\ Call.reply.choices > 0
    /\ ~Call.reply.none /\ Call.reply.text # <<>>

NoOpenBrace(t) == \A i \in 1..Len(t) : t[i] # LBRACE
NoBrace(t) == \A i \in 1..Len(t) : t[i] \notin {LBRACE, RBRACE}

\* the span from the first "{" through the last "}" of t, <<>> when there is
\* no such span, stated without find/rfind and slicing
BraceSpans(t) ==
    {SubSeq(t, i, j) : <<i, j>> \in
        {p \in (1..Len(t)) \X (1..Len(t)) :
            /\ p[1] <= p[2]
            /\ t[p[1]] = LBRACE /\ \A k \in 1..(p[1] - 1) : t[k] # LBRACE
            /\ t[p[2]] = RBRACE /\ \A k \in (p[2] + 1)..Len(t) : t[k] # RBRACE}}

\* no brace span of t parses as JSON
SpanInvalid(t) == \A sp \in BraceSpans(t) : ~json_loads(sp).ok

Categories == {"fire_safety", "structural", "security", "water_damage", "environmental"}

FallbackKeys ==
    {"overall_risk_level", "risk_score", "images_analyzed", "key_findings",
     "raw_response", "detailed_assessment", "recommendations",
     "additional_information_needed", "image_analysis_summary"}

\* r is the fallback result for text t and n images
IsFallback(r, t, n) ==
    /\ r.tag = "dict"
    /\ DOMAIN r.members = FallbackKeys
    /\ r.members.overall_risk_level = JStr(<<"MEDIUM">>)
    /\ r.members.risk_score = JNum(5)
    /\ r.members.images_analyzed = JNum(n)
    /\ r.members.raw_response = JStr(t)
    /\ r.members.detailed_assessment.tag = "dict"
    /\ DOMAIN r.members.detailed_assessment.members = Categories
    /\ \A c \in Categories :
         LET cat == r.members.detailed_assessment.members[c]
         IN  /\ cat.tag = "dict"
             /\ DOMAIN cat.members = {"risk_level", "observations", "concerns"}
             /\ cat.members.risk_level = JStr(<<"MEDIUM">>)
             /\ cat.members.observations = JList(<<>>)
             /\ cat.members.concerns = JList(<<>>)

C2_NoBraceFallback ==
    (GotText /\ NoOpenBrace(Call.reply.text))
        => /\ Out.status = "returned"
           /\ HasKey(Out.result, "raw_response")
           /\ Out.result.members.raw_response.s = Call.reply.text
           /\ HasKey(Out.result, "images_analyzed")
           /\ Out.result.members.images_analyzed.n = Call.images
           /\ IsFallback(Out.result, Call.reply.text, Call.images)

C2_Witness ==
    /\ GotText
    /\ NoOpenBrace(Call.reply.text)
    /\ \E i \in 1..Len(Call.reply.text) : Call.reply.text[i] = RBRACE
    /\ Call.reply.text[Len(Call.reply.text)] = RBRACE
    /\ Call.images = 2
    /\ Out.status = "returned"

\* C3: a reply text that is one JSON object, with brace-free prose before and
\* after it or not, is returned as the parsed object: the same fields, the
\* same values, nothing added.
C3_ObjectPassedThrough ==
    GotText =>
        \A i, j \in 1..Len(Call.reply.text) :
            LET t == Call.reply.text
                obj == SubSeq(t, i, j)
            IN  (/\ i <= j
                 /\ t[i] = LBRACE
                 /\ NoBrace(SubSeq(t, 1, i - 1))
                 /\ NoBrace(SubSeq(t, j + 1, Len(t)))
                 /\ json_loads(obj).ok)
                    => /\ Out.status = "returned"
                       /\ Out.result = json_loads(obj).val

C3_Witness ==
    /\ GotText
    /\ Call.reply.text = <<PROSE, LBRACE, KEY_SCORE, NUM7, RBRACE, PROSE>>
    /\ Out.status = "returned"
    /\ DOMAIN Out.result.members = {"risk_score"}

\* the call failed: create() raised, or the response had an error field, no
\* choice, or no content
CallFailed ==
    /\ Call.called
    /\ \/ Call.reply.kind = "raises"
       \/ Call.reply.error
       \/ Call.reply.choices = 0
       \/ Call.reply.none
       \/ Call.reply.text = <<>>

\* C4: every failure inside analyze_building_risks escapes as the one wrapping
\* exception, "Risk analysis failed: <cause>", whose context is the original
\* exception; no exception of another type escapes.
C4_OnlyWrappedEscapes ==
    /\ CallFailed => Out.status = "raised"
    /\ (Call.called /\ Out.status = "raised")
         => /\ Out.exc.type = "Exception"
            /\ Out.context # NoExc
            /\ Out.exc.msg = <<"Risk analysis failed: ">> \o Out.context.msg
            /\ Call.reply.kind = "raises" => Out.context = Call.reply.exc

C4_Witness ==
    /\ CallFailed
    /\ Call.reply.kind = "raises"
    /\ Out.status = "raised"
    /\ Out.context.type = "RateLimitError"

\* C5: health_check never raises; it returns True exactly when the call
\* returned a response whose text contains OK, and False when the call raised
\* or there is no text.
C5_HealthCheckBoolean ==
    run.health.called =>
        /\ ~run.health.raised
        /\ run.health.value <=>
             /\ run.health.reply.kind = "response"
             /\ run.health.reply.choices > 0
             /\ ~run.health.reply.none
             /\ \E i \in 2..Len(run.health.reply.text) :
                  SubSeq(run.health.reply.text, i - 1, i) = <<"O", "K">>

C5_Witness ==
    /\ run.health.called
    /\ run.health.reply.kind = "response"
    /\ run.health.reply.text = <<PROSE, "O", "K">>
    /\ run.health.value

ParseFailed == GotText /\ SpanInvalid(Call.reply.text)

\* C10 as stated: a returned result has raw_response only when structured
\* parsing failed, and it is then the whole model output.
C10_RawOnlyOnParseFailure ==
    (Call.called /\ Out.status = "returned" /\ HasKey(Out.result, "raw_response"))
        => /\ ParseFailed
           /\ Out.result.members.raw_response = JStr(Call.reply.text)

\* C10 amended: when parsing failed the result carries raw_response, the whole
\* model output; when it succeeded the result has a raw_response only if the
\* model's own JSON object has that key.
C10_RawAddedOnlyOnParseFailure ==
    (Call.called /\ Out.status = "returned")
        => /\ ParseFailed
                => /\ HasKey(Out.result, "raw_response")
                   /\ Out.result.members.raw_response = JStr(Call.reply.text)
           /\ (~ParseFailed /\ HasKey(Out.result, "raw_response"))
                => \E i \in 1..Len(Call.reply.text) : Call.reply.text[i] = KEY_RAW

C10_Witness ==
    /\ Call.called /\ Out.status = "returned"
    /\ ParseFailed
    /\ ExtractSpan(Call.reply.text) # <<>>
    /\ ExtractSpan(Call.reply.text) # Call.reply.text
    /\ HasKey(Out.result, "raw_response")

Request == run.analyze.request

\* C12: for a call with n images the conversation sent is one system message
\* whose content is the prompt text alone, then one user message whose content
\* is the user prompt text followed by exactly n image blocks, the i-th built
\* from the i-th input image's type and payload and marked detail "high".
C12_ConversationShape ==
    Call.called =>
        /\ Len(Request.messages) = 2
        /\ Request.messages[1].role = "system"
        /\ Request.messages[1].content = "str"
        /\ Request.messages[1].text = _get_system_prompt(Len(Call.image_data))
        /\ Request.messages[1].blocks = <<>>
        /\ Request.messages[2].role = "user"
        /\ Request.messages[2].content = "list"
        /\ Len(Request.messages[2].blocks) = Len(Call.image_data) + 1
        /\ Request.messages[2].blocks[1].type = "text"
        /\ Request.messages[2].blocks[1].text = _get_user_prompt(Len(Call.image_data))
        /\ Request.messages[2].blocks[1].url = <<>>
        /\ \A i \in 1..Len(Call.image_data) :
             LET b == Request.messages[2].blocks[i + 1]
             IN  /\ b.type = "image_url"
                 /\ b.url = <<"data:", Call.image_data[i].type, ";base64,",
                              Call.image_data[i].base64>>
                 /\ b.detail = "high"

C12_Witness ==
    /\ Call.called
    /\ Len(Call.image_data) = 2
    /\ Call.image_data[1].type # Call.image_data[2].type
    /\ Request.messages[2].blocks[3].url = <<"data:", "image/png", ";base64,", "b64-2">>

\* the user prompt text sent with the call
UserPromptSent == Request.messages[2].blocks[1].text

\* the text names the count n in decimal
NamesCount(text, n) == \E i \in 1..Len(text) : text[i] = ToString(n)

SingularPrompt ==
    <<"Please analyze this building image for insurance underwriting risk assessment. [...]">>

\* C13: the call's token budget is 2000 for one image and 3000 for more than
\* one, and the budget is 3000 exactly when the user prompt sent is the
\* multi-image one, which names the image count and differs from the
\* single-image prompt.
C13_BudgetFollowsPrompt ==
    Call.called =>
        /\ Call.images = 1 => Request.max_tokens = 2000
        /\ Call.images > 1 => Request.max_tokens = 3000
        /\ Request.max_tokens \in {2000, 3000}
        /\ Request.max_tokens = 3000
             <=> (UserPromptSent # SingularPrompt /\ NamesCount(UserPromptSent, Call.images))
        /\ Request.max_tokens = 2000 <=> UserPromptSent = SingularPrompt

C13_Witness ==
    /\ Call.called
    /\ Call.images = 2
    /\ Request.max_tokens = 3000
    /\ NamesCount(UserPromptSent, 2)

---------------------------------------------------------------------------
(* Claims about the UI (checked under Spec) *)

\* C6: the UI calls analyze_building_risks with 1 to 10 images only: more
\* than 10 files are refused with an error before any analysis call, and an
\* empty upload never reaches the analysis.
C6_AnalyzeOneToTenImages ==
    /\ run.analyze.called => run.analyze.images \in 1..10
    /\ (ai_service # "None" /\ uploaded.count > 10)
         => /\ MsgTooMany \in run.screen
            /\ ~run.button
            /\ ~run.analyze.called
    /\ uploaded.count = 0 => (~run.button /\ ~run.analyze.called)

C6_Witness ==
    /\ uploaded.count = 11
    /\ session.has_result
    /\ MsgTooMany \in run.screen
    /\ ~run.analyze.called

\* the run was an analysis that failed: the images could not be prepared, or
\* analyze_building_risks raised
AnalysisFailed(r) ==
    /\ r.kind = "click_analyze"
    /\ ~r.analyze.called \/ r.analyze.out.status = "raised"

\* C7: a failed analysis shows the error banner and leaves the stored result
\* and its timestamp as they were; only an analysis that returned replaces
\* them.
C7_FailureKeepsStoredResult ==
    [][/\ AnalysisFailed(run') => (session' = session /\ MsgAnalysisFailed \in run'.screen)
       /\ session' # session
            => /\ run'.analyze.called
               /\ run'.analyze.out.status = "returned"
               /\ session'.analysis_result = run'.analyze.out.result]_vars

C7_Witness ==
    /\ session.has_result
    /\ run.kind = "click_analyze"
    /\ run.analyze.called
    /\ run.analyze.out.status = "raised"
    /\ MsgAnalysisFailed \in run.screen

ConfigMissing == \E name \in EnvNames : env[name] # "set"

\* C8: with one of the three connection values missing the service fails at
\* construction: the UI holds no service, says so, handles no upload and makes
\* no analysis call in any run; a constructed service never raises the
\* configuration error from a call.
C8_MissingConfigDisablesAnalysis ==
    /\ ConfigMissing
         => /\ ai_service = "None"
            /\ ~run.handled /\ ~run.button
            /\ ~run.analyze.called /\ ~run.health.called
            /\ ~session.has_result
            /\ run.kind # "start" => {MsgInitFailed, MsgNoService} \subseteq run.screen
    /\ run.analyze.called
         => /\ run.analyze.out.exc.type # "ValueError"
            /\ run.analyze.out.context.type # "ValueError"

C8_Witness ==
    /\ env["4.1_OPENAI_API_KEY"] = "empty"
    /\ env["4.1_OPENAI_ENDPOINT"] = "set"
    /\ env["4.1_OPENAI_DEPLOYMENT_NAME"] = "set"
    /\ run.kind = "click_health"
    /\ MsgNoService \in run.screen

\* the run rendered a result that analyze_building_risks returned
Rendered == run.analyze.called /\ run.analyze.out.status = "returned"

\* C11: rendering any result that analyze_building_risks returns does not
\* fail: the results are shown without the failure banner, a missing
\* overall_risk_level counts as UNKNOWN, and a level that is not LOW, MEDIUM
\* or HIGH gets the neutral indicator.
C11_RenderingNeverFails ==
    Rendered =>
        /\ MsgResults \in run.screen
        /\ MsgAnalysisFailed \notin run.screen
        /\ Get(run.analyze.out.result, "overall_risk_level", JStr(<<"UNKNOWN">>))
                \notin {JStr(<<"LOW">>), JStr(<<"MEDIUM">>), JStr(<<"HIGH">>)}
             => MsgLevel("white") \in run.screen

===========================================================================
